---- MODULE Spec2Model ----
(***************************************************************************)
(* A model of fizzbuzz.py: the Rule tuple with its test and its textual    *)
(* conversion, compile_rules, and the closure that compile_rules returns.  *)
(*                                                                         *)
(* A text (a Python str) is a sequence of one-character strings, so that   *)
(* concatenation, prefixes, substrings and str.find are computed.  An      *)
(* argument of the closure is a record: an int n, a float n/2 (halves, so  *)
(* that non-integral numbers occur) or a text.                             *)
(***************************************************************************)
EXTENDS Integers, Sequences, FiniteSets, TLC

\* ------------------------------------------------------------------ bounds

\* The longest rule sequence handed to compile_rules.
MaxRules == 2

\* The integer arguments are -MaxInt .. MaxInt, and 15.
MaxInt == 3

\* How many times the caller changes its own list after compile_rules.
MaxMutations == 1

\* The longest rule sequence of the specification about labels.
MaxLabelRules == 3

\* ------------------------------------------------------------------- texts

Fizz == <<"F", "i", "z", "z">>
Buzz == <<"B", "u", "z", "z">>
Zero == <<"Z", "e", "r", "o">>
Empty == <<>>

DigitChars == <<"0", "1", "2", "3", "4", "5", "6", "7", "8", "9">>

Abs(n) == IF n < 0 THEN -n ELSE n

\* The decimal digits of a natural number, most significant first.
RECURSIVE Digits(_)
Digits(n) ==
    IF n < 10 THEN <<DigitChars[n + 1]>>
    ELSE Digits(n \div 10) \o <<DigitChars[(n % 10) + 1]>>

\* ------------------------------------------------------------------ values

Rule(number, value) == [number |-> number, value |-> value]

IntArg(n) == [type |-> "int", n |-> n, txt |-> <<>>]
\* The float n/2.
FloatArg(n) == [type |-> "float", n |-> n, txt |-> <<>>]
StrArg(t) == [type |-> "str", n |-> 0, txt |-> t]

\* str(i) of line 64, by the type of i: an int in decimal with its sign, a
\* float n/2 as Python's repr of it ("1.5", "3.0", "-0.5"), a text as itself.
Str(i) ==
    CASE i.type = "int" ->
            (IF i.n < 0 THEN <<"-">> ELSE <<>>) \o Digits(Abs(i.n))
      [] i.type = "float" ->
            (IF i.n < 0 THEN <<"-">> ELSE <<>>)
                \o Digits(Abs(i.n) \div 2)
                \o <<".">>
                \o (IF Abs(i.n) % 2 = 1 THEN <<"5">> ELSE <<"0">>)
      [] OTHER -> i.txt

\* Python's a % b on ints, b # 0: the result takes the sign of b.
PyMod(a, b) == IF b > 0 THEN a % b ELSE -((-a) % (-b))

\* Whether the text holds a "%d" conversion, which text % number fills in.
HasConversion(t) ==
    \E k \in 1..(Len(t) - 1) : t[k] = "%" /\ t[k + 1] = "d"

Ok(b) == [err |-> "none", val |-> b]
Raise(e) == [err |-> e, val |-> FALSE]

\* Rule.test with its operands exchanged: self.number % i == 0.
RuleTestSwapped(rule, i) ==
    IF i.type # "int" THEN Raise("TypeError")
    ELSE IF i.n = 0 THEN Raise("ZeroDivisionError")
    ELSE Ok(PyMod(rule.number, i.n) = 0)

\* Rule.test guarded against a zero number: self.number != 0 and ...
RuleTestGuarded(rule, i) ==
    IF rule.number = 0 THEN Ok(FALSE)
    ELSE IF i.type = "str" THEN Raise("TypeError")
    ELSE Ok(PyMod(i.n, (IF i.type = "float" THEN 2 ELSE 1) * rule.number) = 0)

\* Rule.test that applies to every number: the filter keeps every rule.
RuleTestAlways(rule, i) == Ok(TRUE)

\* Rule.test, line 45: i % self.number == 0.  On an int or a float a zero
\* number raises ZeroDivisionError.  On a text, % is printf-style formatting:
\* without a conversion in the text it raises TypeError ("not all arguments
\* converted"), with one it gives a text, which never equals 0.
RuleTest(rule, i) ==
    CASE i.type = "int" ->
            IF rule.number = 0 THEN Raise("ZeroDivisionError")
            ELSE Ok(PyMod(i.n, rule.number) = 0)
      [] i.type = "float" ->
            IF rule.number = 0 THEN Raise("ZeroDivisionError")
            ELSE Ok(PyMod(i.n, 2 * rule.number) = 0)
      [] OTHER ->
            IF HasConversion(i.txt) THEN Ok(FALSE) ELSE Raise("TypeError")

\* Rule.__str__, line 41.
RuleStr(rule) == rule.value

\* ' '.join: a separator between the pieces.
JoinSeparated(s, piece) == IF s = <<>> THEN piece ELSE s \o <<" ">> \o piece

\* The pieces joined in reverse order.
JoinReversed(s, piece) == piece \o s

\* ''.join of line 61: the next piece is put after what was joined so far.
Join(s, piece) == s \o piece

\* The match statement without its first case: s is returned as it is.
MatchResultNoDefault(s, i) == s

\* The match statement, lines 62-66.
MatchResult(s, i) == IF s = <<>> THEN Str(i) ELSE s

\* Line 55 left out: rules stays the caller's iterable.
ListOfAlias(it) == [owned |-> FALSE, items |-> <<>>]

\* list(rules), line 55: a list of the closure's own, holding the items of
\* the iterable in order.
ListOf(it) == [owned |-> TRUE, items |-> it.items]

\* What iterating it to its end leaves of the caller's iterable: a list is
\* unchanged, a generator is exhausted.
Drained(it) == IF it.kind = "gen" THEN [it EXCEPT !.items = <<>>] ELSE it

\* s kept in one place for all invocations (a global, a nonlocal).
SlotShared(c) == "c1"

\* The frame that holds the local s of an invocation: each invocation of the
\* closure has its own.
Slot(c) == c

\* ------------------------------------------------------------------- state

Callers == {"c1", "c2"}

\* The one caller of the sequential specifications.
Solo == {"c1"}

VARIABLES
    src,        \* the caller's iterable: [kind, items]; a generator's items
                \* are those it has not yielded yet
    compiled,   \* compile_rules has returned
    rules,      \* the closure's captured variable rules
    given,      \* what the iterable held when compile_rules was called
    reads,      \* how many times the caller's iterable has been iterated
    mutations,  \* how many times the caller has changed its list since
    pc,         \* per caller: "idle", "iter" (inside line 61) or "done"
    arg,        \* per caller: the argument i
    idx,        \* per caller: the position of the list iterator
    acc,        \* per frame: what line 61 has joined so far
    last,       \* per caller: the outcome of the latest Rule.test
    result,     \* per caller: what the invocation returned or raised
    epoch       \* per caller: the value of mutations when it was invoked

vars == <<src, compiled, rules, given, reads, mutations,
          pc, arg, idx, acc, last, result, epoch>>

\* All sequences over S of length at most n.
SeqsUpTo(S, n) == UNION {[1..k -> S] : k \in 0..n}

\* The rules of the sequential specification: the classic two, a rule with
\* an empty text, a rule with the number zero and one with a negative number.
RulePool ==
    {Rule(3, Fizz), Rule(5, Buzz), Rule(3, Empty), Rule(0, Zero),
     Rule(-2, <<"N">>)}

\* The rules of the specification of interleaved invocations.
SharedPool == {Rule(3, Fizz), Rule(5, Buzz), Rule(3, Empty)}

IntInputs == {IntArg(n) : n \in ((-MaxInt)..MaxInt) \cup {15}}
OtherInputs == {FloatArg(3), FloatArg(6), StrArg(<<"a">>), StrArg(<<"%", "d">>)}
Inputs == IntInputs \cup OtherInputs

NoArg == IntArg(0)
NoTest == [err |-> "none", val |-> FALSE]
NoResult == [ok |-> FALSE, err |-> "none", out |-> <<>>]
Returned(s) == [ok |-> TRUE, err |-> "none", out |-> s]
Raised(e) == [ok |-> FALSE, err |-> e, out |-> <<>>]

InitWith(sources) ==
    /\ src \in sources
    /\ compiled = FALSE
    /\ rules = [owned |-> TRUE, items |-> <<>>]
    /\ given = <<>>
    /\ reads = 0
    /\ mutations = 0
    /\ pc = [c \in Callers |-> "idle"]
    /\ arg = [c \in Callers |-> NoArg]
    /\ idx = [c \in Callers |-> 1]
    /\ acc = [c \in Callers |-> <<>>]
    /\ last = [c \in Callers |-> NoTest]
    /\ result = [c \in Callers |-> NoResult]
    /\ epoch = [c \in Callers |-> 0]

\* A list or a one-shot generator of at most n rules of the pool.
Sources(pool, n) ==
    {[kind |-> k, items |-> s] : k \in {"list", "gen"}, s \in SeqsUpTo(pool, n)}

Init == InitWith(Sources(RulePool, MaxRules))

InitShared == InitWith(Sources(SharedPool, MaxRules))

\* The rules of the specification about labels: texts out of lower-case
\* letters, a text out of digits, and title-cased texts as the test suite
\* generates them (test_fizzbuzz.py, line 46).
LabelPool ==
    {Rule(2, <<"a", "b">>), Rule(3, <<"b">>), Rule(3, <<"c">>),
     Rule(2, <<"1">>),
     Rule(2, <<"A", "b">>), Rule(3, <<"B">>), Rule(5, <<"B", "a">>),
     Rule(5, <<"C", "b">>)}

InitLabels ==
    InitWith({[kind |-> "list", items |-> s] :
                s \in SeqsUpTo(LabelPool, MaxLabelRules)})

\* ----------------------------------------------------------------- actions

\* compile_rules, lines 55-68.
Compile ==
    /\ ~compiled
    /\ compiled' = TRUE
    /\ given' = src.items
    /\ rules' = ListOf(src)
    /\ src' = IF rules'.owned THEN Drained(src) ELSE src
    /\ reads' = IF rules'.owned THEN reads + 1 ELSE reads
    /\ UNCHANGED <<mutations, pc, arg, idx, acc, last, result, epoch>>

\* The sequence line 61 iterates: the closure's own list or, were rules
\* still the caller's object, that object as it is now.
Iterated == IF rules.owned THEN rules.items ELSE src.items

\* Whether the iteration goes through the caller's generator itself.
Shared == ~rules.owned /\ src.kind = "gen"

\* The closure is called with i: line 61 starts with an empty join.
Call(c, i) ==
    /\ compiled
    /\ pc[c] = "idle"
    /\ pc' = [pc EXCEPT ![c] = "iter"]
    /\ arg' = [arg EXCEPT ![c] = i]
    /\ idx' = [idx EXCEPT ![c] = 1]
    /\ acc' = [acc EXCEPT ![Slot(c)] = <<>>]
    /\ last' = [last EXCEPT ![c] = NoTest]
    /\ epoch' = [epoch EXCEPT ![c] = mutations]
    /\ reads' = IF rules.owned THEN reads ELSE reads + 1
    /\ UNCHANGED <<src, compiled, rules, given, mutations, result>>

\* Line 61, one rule: filter takes the next rule and tests it, map converts
\* a rule that applies to its text, join takes the text.  An exception of
\* the test ends the invocation.
Step(c) ==
    /\ pc[c] = "iter"
    /\ IF Shared THEN Iterated # <<>> ELSE idx[c] <= Len(Iterated)
    /\ LET rule == IF Shared THEN Head(Iterated) ELSE Iterated[idx[c]]
           t == RuleTest(rule, arg[c])
       IN  /\ last' = [last EXCEPT ![c] = t]
           /\ src' = IF Shared THEN [src EXCEPT !.items = Tail(src.items)]
                     ELSE src
           /\ idx' = [idx EXCEPT ![c] = idx[c] + 1]
           /\ IF t.err # "none"
              THEN /\ pc' = [pc EXCEPT ![c] = "done"]
                   /\ result' = [result EXCEPT ![c] = Raised(t.err)]
                   /\ acc' = acc
              ELSE /\ pc' = pc
                   /\ result' = result
                   /\ acc' = IF t.val
                             THEN [acc EXCEPT ![Slot(c)] =
                                        Join(acc[Slot(c)], RuleStr(rule))]
                             ELSE acc
    /\ UNCHANGED <<compiled, rules, given, reads, mutations, arg, epoch>>

\* Lines 62-66, once the rules are exhausted.
Finish(c) ==
    /\ pc[c] = "iter"
    /\ IF Shared THEN Iterated = <<>> ELSE idx[c] > Len(Iterated)
    /\ pc' = [pc EXCEPT ![c] = "done"]
    /\ result' = [result EXCEPT ![c] = Returned(MatchResult(acc[Slot(c)], arg[c]))]
    /\ UNCHANGED <<src, compiled, rules, given, reads, mutations,
                   arg, idx, acc, last, epoch>>

\* The caller has its result and may call again.
Return(c) ==
    /\ pc[c] = "done"
    /\ pc' = [pc EXCEPT ![c] = "idle"]
    /\ arg' = [arg EXCEPT ![c] = NoArg]
    /\ idx' = [idx EXCEPT ![c] = 1]
    /\ last' = [last EXCEPT ![c] = NoTest]
    /\ result' = [result EXCEPT ![c] = NoResult]
    /\ epoch' = [epoch EXCEPT ![c] = 0]
    /\ acc' = [acc EXCEPT ![Slot(c)] = <<>>]
    /\ UNCHANGED <<src, compiled, rules, given, reads, mutations>>

\* After compile_rules the caller still holds the list it passed, and may
\* change it.
Mutate(items) ==
    /\ compiled
    /\ src.kind = "list"
    /\ mutations < MaxMutations
    /\ src' = [src EXCEPT !.items = items]
    /\ mutations' = mutations + 1
    /\ UNCHANGED <<compiled, rules, given, reads,
                   pc, arg, idx, acc, last, result, epoch>>

Reversed(s) == [k \in 1..Len(s) |-> s[Len(s) + 1 - k]]

CallerAppend == \E r \in RulePool : Mutate(Append(src.items, r))

CallerPop == src.items # <<>> /\ Mutate(Tail(src.items))

CallerReverse == Len(src.items) > 1 /\ Mutate(Reversed(src.items))

\* One caller invokes the closure again and again, on any argument, and
\* changes the list it passed in between.
Next ==
    \/ Compile
    \/ \E c \in Solo : \E i \in Inputs : Call(c, i)
    \/ \E c \in Solo : Step(c)
    \/ \E c \in Solo : Finish(c)
    \/ \E c \in Solo : Return(c)
    \/ CallerAppend
    \/ CallerPop
    \/ CallerReverse

Spec == Init /\ [][Next]_vars

\* Two callers invoke the same closure on integers, their steps interleaved
\* in any order.
NextShared ==
    \/ Compile
    \/ \E c \in Callers : \E i \in IntInputs : Call(c, i)
    \/ \E c \in Callers : Step(c)
    \/ \E c \in Callers : Finish(c)
    \/ \E c \in Callers : Return(c)

SpecShared == InitShared /\ [][NextShared]_vars

\* One caller invokes the closure on integers.
NextLabels ==
    \/ Compile
    \/ \E c \in Solo : \E i \in IntInputs : Call(c, i)
    \/ \E c \in Solo : Step(c)
    \/ \E c \in Solo : Finish(c)
    \/ \E c \in Solo : Return(c)

SpecLabels == InitLabels /\ [][NextLabels]_vars

\* --------------------------------------------- what the claims speak about

\* d divides n, said without the remainder operation.
Divides(d, n) == \E q \in (-Abs(n))..Abs(n) : n = q * d

\* The texts of the rules that d-divide n, one after the other, in the order
\* of the rule sequence.
RECURSIVE MatchedText(_, _)
MatchedText(items, n) ==
    IF items = <<>> THEN <<>>
    ELSE (IF Divides(Head(items).number, n) THEN Head(items).value ELSE <<>>)
            \o MatchedText(Tail(items), n)

\* The positions of the rules that divide n.
Hits(items, n) == {k \in 1..Len(items) : Divides(items[k].number, n)}

\* What line 61 has joined after the first k rules, the invocation running
\* on its own; no test among them raises.
RECURSIVE JoinedAlone(_, _, _)
JoinedAlone(items, i, k) ==
    IF k = 0 THEN <<>>
    ELSE IF RuleTest(items[k], i).val
         THEN Join(JoinedAlone(items, i, k - 1), RuleStr(items[k]))
         ELSE JoinedAlone(items, i, k - 1)

\* The positions whose test raises.
Raising(items, i) == {k \in 1..Len(items) : RuleTest(items[k], i).err # "none"}

\* The outcome of an invocation running on its own on the rule list items.
Alone(items, i) ==
    IF Raising(items, i) # {}
    THEN Raised(RuleTest(items[CHOOSE k \in Raising(items, i) :
                                 \A j \in Raising(items, i) : k <= j], i).err)
    ELSE Returned(MatchResult(JoinedAlone(items, i, Len(items)), i))

\* t occurs in s at position p (from 1).
OccursAt(s, t, p) ==
    /\ p + Len(t) - 1 <= Len(s)
    /\ \A j \in 1..Len(t) : s[p + j - 1] = t[j]

\* t in s.
Contains(s, t) == \E p \in 1..(Len(s) + 1) : OccursAt(s, t, p)

\* s.find(t): the lowest index (from 0) at which t occurs in s, or -1.
Find(s, t) ==
    IF Contains(s, t)
    THEN (CHOOSE p \in 1..(Len(s) + 1) :
            OccursAt(s, t, p) /\ \A q \in 1..(p - 1) : ~OccursAt(s, t, q)) - 1
    ELSE -1

\* s.startswith(t).
StartsWith(s, t) == OccursAt(s, t, 1)

\* unambiguous_rule_names, over rules with texts that differ: the text of no
\* rule is the start of the text of another rule.
UnambiguousRuleNames(items) ==
    \A j, k \in 1..Len(items) :
        j # k => ~StartsWith(items[k].value, items[j].value)

NonEmptyLabels(items) == \A k \in 1..Len(items) : items[k].value # <<>>

UpperCase == {"A", "B", "C", "D", "E", "F", "G", "H", "I", "J", "K", "L", "M",
              "N", "O", "P", "Q", "R", "S", "T", "U", "V", "W", "X", "Y", "Z"}
LowerCase == {"a", "b", "c", "d", "e", "f", "g", "h", "i", "j", "k", "l", "m",
              "n", "o", "p", "q", "r", "s", "t", "u", "v", "w", "x", "y", "z"}

\* What the rules strategy draws: letters, title-cased, at least one.
TitleCased(t) ==
    /\ Len(t) >= 1
    /\ t[1] \in UpperCase
    /\ \A k \in 2..Len(t) : t[k] \in LowerCase

TitleLabels(items) == \A k \in 1..Len(items) : TitleCased(items[k].value)

\* The caller has the string the closure returned for an integer.
ReturnedOnInt(c) == pc[c] = "done" /\ result[c].ok /\ arg[c].type = "int"

\* ------------------------------------------------------------------ claims

\* C1, as stated: for every rule sequence and every integer i the closure
\* returns str(i) when no rule applies to i, and otherwise the texts of the
\* rules that apply, in the order of the sequence, with nothing between them.
C1_AsStated ==
    \A c \in Solo :
        ReturnedOnInt(c) =>
            result[c].out = IF Hits(given, arg[c].n) = {}
                            THEN Str(arg[c])
                            ELSE MatchedText(given, arg[c].n)

\* C1, amended: the closure returns str(i) when the texts of the rules that
\* apply to i, put together, are empty (no rule applies, or those that apply
\* have empty texts), and otherwise those texts in the order of the sequence
\* with nothing between them; every rule has been tested by then.
C1_TotalEvaluation ==
    \A c \in Solo :
        ReturnedOnInt(c) =>
            /\ idx[c] = Len(given) + 1
            /\ result[c].out = IF MatchedText(given, arg[c].n) = <<>>
                               THEN Str(arg[c])
                               ELSE MatchedText(given, arg[c].n)

\* Two rules apply to a negative or multi-digit i and their texts are
\* returned; the first of them did not stop the second.
C1_Witness ==
    \E c \in Solo :
        /\ ReturnedOnInt(c)
        /\ arg[c].n # 0
        /\ Cardinality(Hits(given, arg[c].n)) = 2
        /\ given[1].value # <<>> /\ given[2].value # <<>>
        /\ result[c].out = given[1].value \o given[2].value

\* C3: for a rule whose number d is at least 2 and any integer i, the test
\* is true exactly when d divides i: true on every n*d with n positive,
\* false on every n*d + r with n >= 0 and 1 <= r < d.
C3_TestIsDivisibility ==
    \A c \in Solo :
        (pc[c] # "idle" /\ idx[c] > 1 /\ arg[c].type = "int"
            /\ rules.items[idx[c] - 1].number >= 2) =>
            LET d == rules.items[idx[c] - 1].number
                i == arg[c].n
            IN  /\ last[c].err = "none"
                /\ last[c].val <=> Divides(d, i)
                /\ (\E n \in 1..Abs(i) : i = n * d) => last[c].val
                /\ (\E n \in 0..Abs(i) : \E r \in 1..(d - 1) : i = n * d + r)
                        => ~last[c].val

\* The test has answered true on a negative multiple and false on a number
\* with a remainder.
C3_Witness ==
    /\ pc["c1"] = "iter" /\ idx["c1"] = 2 /\ arg["c1"] = IntArg(-3)
    /\ rules.items[1].number = 3
    /\ last["c1"] = Ok(TRUE)

\* C4: a rule with the number zero is rejected by a division-by-zero error
\* at the latest at its first test: an invocation on an integer whose rules
\* hold one raises ZeroDivisionError at the first such rule, returns no
\* string, and raises nothing else.
C4_ZeroNumberRaises ==
    \A c \in Solo :
        (pc[c] = "done" /\ arg[c].type = "int"
            /\ \E k \in 1..Len(given) : given[k].number = 0) =>
            /\ result[c] = Raised("ZeroDivisionError")
            /\ last[c] = Raise("ZeroDivisionError")
            /\ given[idx[c] - 1].number = 0
            /\ \A k \in 1..(idx[c] - 2) : given[k].number # 0

\* The zero rule comes after a rule that applied, whose text is dropped.
C4_Witness ==
    \E c \in Solo :
        /\ pc[c] = "done" /\ arg[c].type = "int"
        /\ Len(given) = 2 /\ given[2].number = 0
        /\ acc[c] # <<>>
        /\ result[c] = Raised("ZeroDivisionError")

\* C7, as stated: an invocation on a value that is not an integer fails and
\* returns no string, whatever the rules.
C7_AsStated ==
    \A c \in Solo :
        (pc[c] = "done" /\ arg[c].type # "int") => ~result[c].ok

\* C10: on an integer the closure never returns the empty string: when the
\* texts of the rules that apply are empty together, it returns str(i).
C10_NeverEmpty ==
    \A c \in Solo :
        ReturnedOnInt(c) =>
            /\ result[c].out # <<>>
            /\ MatchedText(given, arg[c].n) = <<>> => result[c].out = Str(arg[c])

\* Every rule that applies has an empty text, the same rule twice, and the
\* number is returned.
C10_Witness ==
    \E c \in Solo :
        /\ ReturnedOnInt(c)
        /\ Len(given) = 2 /\ given[1] = given[2]
        /\ Hits(given, arg[c].n) = {1, 2}
        /\ given[1].value = <<>>
        /\ result[c].out = Str(arg[c])

\* C2: compiled from a one-shot generator, the closure gives the same
\* outcome on the same integer at every invocation, and what it iterates is
\* always the whole rule sequence, never an emptied or half-read one.
C2_SameOnEveryCall ==
    (compiled /\ src.kind = "gen") =>
        /\ Iterated = given
        /\ \A c, d \in Callers :
              (pc[c] = "done" /\ pc[d] = "done" /\ arg[c] = arg[d])
                  => result[c] = result[d]

\* Two invocations on the same integer, after the generator was read to its
\* end by compile_rules, both return the texts of both rules.
C2_Witness ==
    /\ src = [kind |-> "gen", items |-> <<>>]
    /\ Len(given) = 2
    /\ pc["c1"] = "done" /\ pc["c2"] = "done"
    /\ arg["c1"] = arg["c2"]
    /\ result["c1"].ok
    /\ result["c1"].out = given[1].value \o given[2].value
    /\ given[1].value # <<>> /\ given[2].value # <<>>
    /\ result["c2"] = result["c1"]

\* C8: with the steps of two invocations interleaved in any order, each has
\* joined what it would have joined running alone, and ends as it would
\* have ended alone.
C8_InterleavingIsInvisible ==
    \A c \in Callers :
        /\ pc[c] = "iter" => acc[c] = JoinedAlone(rules.items, arg[c], idx[c] - 1)
        /\ pc[c] = "done" => result[c] = Alone(rules.items, arg[c])

\* Both invocations are inside line 61, on different integers, each with a
\* text joined and a rule still to test.
C8_Witness ==
    /\ pc["c1"] = "iter" /\ pc["c2"] = "iter"
    /\ arg["c1"] # arg["c2"]
    /\ idx["c1"] = 2 /\ idx["c2"] = 2
    /\ Len(rules.items) = 2
    /\ acc["c1"] # <<>> /\ acc["c2"] = <<>>

\* C9: compile_rules reads its argument once, whole and in order, before it
\* returns; from then on the closure's list is what the argument held then,
\* no invocation reads the argument again, and a change of the caller's
\* list changes no outcome.
C9_CapturedOnce ==
    /\ ~compiled => reads = 0
    /\ compiled =>
        /\ reads = 1
        /\ rules.owned
        /\ rules.items = given
        /\ src.kind = "gen" => src.items = <<>>
        /\ \A c \in Solo : pc[c] = "done" => result[c] = Alone(given, arg[c])

\* An invocation made after the caller changed its list returns what the
\* list held at compile time gives, not what the changed list would give.
C9_Witness ==
    \E c \in Solo :
        /\ mutations > 0 /\ epoch[c] = mutations
        /\ src.items # given
        /\ ReturnedOnInt(c)
        /\ result[c] = Alone(given, arg[c])
        /\ result[c] # Alone(src.items, arg[c])

\* The rule sequence is as C5 and C6 require: no text empty, no text the
\* start of (or the same as) the text of another rule.
Unambiguous(items) ==
    /\ NonEmptyLabels(items)
    /\ UnambiguousRuleNames(items)

\* The text of no rule that does not apply to i occurs in the output.
NoFalseContainment(c) ==
    \A k \in 1..Len(given) :
        ~Divides(given[k].number, arg[c].n)
            => ~Contains(result[c].out, given[k].value)

\* Of two rules that apply to i, the text of the earlier one is found at a
\* lower index of the output than the text of the later one.
FoundInOrder(c) ==
    \A j, k \in Hits(given, arg[c].n) :
        j < k => Find(result[c].out, given[j].value)
                    < Find(result[c].out, given[k].value)

\* C5, as stated: with non-empty texts none of which is the start of
\* another, the text of a rule that does not apply to i does not occur in
\* the output for i.
C5_AsStated ==
    \A c \in Solo :
        (ReturnedOnInt(c) /\ Unambiguous(given)) => NoFalseContainment(c)

\* C5, amended: the same, for texts that are title-cased words of letters
\* (one upper-case letter, then lower-case letters), none the start of
\* another.
C5_NoFalseContainment ==
    \A c \in Solo :
        (ReturnedOnInt(c) /\ Unambiguous(given) /\ TitleLabels(given))
            => NoFalseContainment(c)

\* Of three title-cased rules one applies and two do not; one of the two
\* differs from a part of the output only by the case of a letter.
C5_Witness ==
    \E c \in Solo :
        /\ ReturnedOnInt(c)
        /\ Len(given) = 3 /\ Unambiguous(given) /\ TitleLabels(given)
        /\ Cardinality(Hits(given, arg[c].n)) = 1
        /\ result[c].out = <<"A", "b">>
        /\ \E k \in 1..3 : given[k].value = <<"B">>

\* C6, as stated: with non-empty texts none of which is the start of
\* another and an i that a rule applies to, the texts of the rules that
\* apply are found in the output in the order of the rules.
C6_AsStated ==
    \A c \in Solo :
        (ReturnedOnInt(c) /\ Unambiguous(given) /\ Hits(given, arg[c].n) # {})
            => FoundInOrder(c)

\* C6, amended: the same, for texts that are title-cased words of letters.
C6_ResultsOrder ==
    \A c \in Solo :
        (ReturnedOnInt(c) /\ Unambiguous(given) /\ TitleLabels(given)
            /\ Hits(given, arg[c].n) # {})
            => FoundInOrder(c)

\* Three title-cased rules apply to i, and their texts are found at rising
\* indices.
C6_Witness ==
    \E c \in Solo :
        /\ ReturnedOnInt(c)
        /\ Len(given) = 3 /\ Unambiguous(given) /\ TitleLabels(given)
        /\ Hits(given, arg[c].n) = {1, 2, 3}
        /\ Find(result[c].out, given[1].value) = 0
        /\ Find(result[c].out, given[2].value) = Len(given[1].value)
        /\ Find(result[c].out, given[3].value)
                = Len(given[1].value) + Len(given[2].value)

====
